---------------------------- MODULE Spec2Model ----------------------------
(***************************************************************************)
(* Model of the qwerty-WS persistence pipeline: the Hocuspocus server      *)
(* hooks (src/src/index.ts), the Redis/Postgres cache-aside extension      *)
(* (src/src/extensions/redis-persistence.ts), the BullMQ snapshot queue    *)
(* (src/src/index.ts:298-356) and the diff worker (src/unnamed/part_002)   *)
(* with the Tiptap decoder (src/unnamed/part_003:172-306).                 *)
(*                                                                         *)
(* Wall-clock values (lastSyncedAt, createdAt, version, timestamp) are not *)
(* state of the model: rows of the snapshot log are kept in insertion      *)
(* order, which is the order createdAt gives them.                         *)
(***************************************************************************)
EXTENDS Integers, Sequences, FiniteSets, TLC

(***************************************************************************)
(* Bounds of the model.                                                    *)
(***************************************************************************)
\* jobs ever added to the queue in one behaviour
MaxJobs == 2
\* redeliveries (stalled job moved back to wait) of one job
MaxStalls == 1
\* snapshot rows written by the direct-save path in one behaviour
MaxSnapshots == 2
\* connections open at one time
MaxSockets == 2
\* onDisconnect handlers suspended at their await at one time
MaxPending == 2

(***************************************************************************)
(* Program constants.                                                      *)
(***************************************************************************)
\* src/src/index.ts:322  defaultJobOptions.attempts
Attempts == 3
\* src/src/extensions/redis-persistence.ts:50,66  "EX", 3600
CacheTTL == 3600
\* src/unnamed/part_003:195  hash.substring(0, 16)
IdLength == 16

Pages == {"p1", "p2"}
Users == {"u1", "u2"}

(***************************************************************************)
(* Document content: the items of the XmlFragment "default".  An item is   *)
(* a Y.XmlElement (nodeName, attributes, children) or a Y.XmlText.         *)
(***************************************************************************)
XmlText(t) == [kind |-> "text", text |-> t]
XmlElement(n, a, ch) == [kind |-> "element", nodeName |-> n, attrs |-> a, children |-> ch]

ParaHello == XmlElement("paragraph", "plain", <<XmlText("Hello")>>)
ParaWorld == XmlElement("paragraph", "plain", <<XmlText("World")>>)
\* same type and text as ParaHello, other attributes and nesting
ParaHelloMarked ==
    XmlElement("paragraph", "centered",
               <<XmlElement("span", "plain", <<XmlText("Hel")>>), XmlText("lo")>>)
TopText == XmlText("stray")
\* an item whose read (getAttributes, forEach, toString) throws
Unreadable == [kind |-> "unreadable"]

\* The document contents the model draws from.
Docs ==
    { <<>>,
      <<ParaHello>>,
      <<ParaHello, ParaWorld>>,
      <<ParaHelloMarked, ParaHello>>,
      <<TopText, ParaWorld>>,
      <<ParaHello, TopText>>,
      <<ParaHello, Unreadable, ParaWorld>> }

\* The contents of the jobs the worker is given.
JobDocs ==
    { <<>>,
      <<ParaHello>>,
      <<ParaHello, ParaWorld>>,
      <<ParaHelloMarked, ParaHello>>,
      <<TopText, ParaWorld>>,
      <<ParaHello, Unreadable, ParaWorld>> }

(***************************************************************************)
(* Encodings.  Bytes and strings are kept as tagged values so that the     *)
(* conversions are not the identity.                                       *)
(***************************************************************************)
\* Y.encodeStateAsUpdate: the update bytes of a document
serializeYDoc(doc) == [enc |-> "yjs", doc |-> doc]
\* bytes that are no Yjs update
Malformed == [enc |-> "junk"]
\* Buffer.from(state).toString("base64")
yjsStateToBase64(state) == [enc |-> "base64", of |-> state]
\* new Uint8Array(Buffer.from(base64, "base64"))
base64ToYjsState(str) == str.of
\* Buffer.from(x): the bytes themselves for bytes, the UTF-8 bytes for a string
BufferFrom(x) == IF x.enc = "base64" THEN [enc |-> "utf8", of |-> x] ELSE x
\* crypto sha256 hex digest
calculateStateHash(state) == [sha256 |-> state]

IsString(x) == x.enc = "base64"

\* Outcomes of Y.applyUpdate(new Y.Doc(), state): the decoded document, or
\* a throw.  A string handed in as the update is read character by
\* character as if it were bytes: the read throws or yields an empty document.
Throws == [threw |-> TRUE]
Decoded(doc) == [threw |-> FALSE, doc |-> doc]
deserializeYDoc(state) ==
    CASE state.enc = "yjs" -> {Decoded(state.doc)}
      [] state.enc = "base64" -> {Throws, Decoded(<<>>)}
      [] OTHER -> {Throws}

(***************************************************************************)
(* Decoder: yjsToBlocks over the XmlFragment.                              *)
(***************************************************************************)
RECURSIVE extractText(_)
extractText(node) ==
    IF node.kind = "text" THEN node.text
    ELSE LET RECURSIVE cat(_)
             cat(i) == IF i > Len(node.children) THEN ""
                       ELSE extractText(node.children[i]) \o cat(i + 1)
         IN cat(1)

\* an id that leaves the order out of the digest
generateBlockId_noOrder(type, order, textContent) ==
    [digest |-> <<type, textContent>>, chars |-> IdLength]

\* sha256 of `${type}-${order}-${textContent}`, first IdLength hex characters
generateBlockId(type, order, textContent) ==
    [digest |-> <<type, order, textContent>>, chars |-> IdLength]

\* fragment.forEach from item i on; a throw while reading an item ends the
\* traversal in the catch of yjsToBlocks, which returns the blocks pushed so far
RECURSIVE yjsToBlocksFrom(_, _, _)
yjsToBlocksFrom(fragment, i, order) ==
    IF i > Len(fragment) THEN <<>>
    ELSE LET item == fragment[i] IN
         IF item.kind = "unreadable" THEN <<>>
         ELSE IF item.kind = "element"
         THEN LET textContent == extractText(item)
                  blk == [id |-> generateBlockId(item.nodeName, order, textContent),
                          type |-> item.nodeName,
                          content |-> [text |-> textContent, attrs |-> item.attrs],
                          parentId |-> "null",
                          order |-> order]
              IN <<blk>> \o yjsToBlocksFrom(fragment, i + 1, order + 1)
         ELSE yjsToBlocksFrom(fragment, i + 1, order)

yjsToBlocks(ydoc) == yjsToBlocksFrom(ydoc, 1, 0)

Range(s) == {s[i] : i \in DOMAIN s}
IdsOf(blocks) == {b.id : b \in Range(blocks)}


(***************************************************************************)
(* State.                                                                  *)
(***************************************************************************)
VARIABLES
    \* Postgres
    block,              \* Block rows; id is the unique key
    blockVersion,       \* BlockVersion rows, in insertion order
    snapshots,          \* YjsSnapshot rows, in insertion order (createdAt)
    \* BullMQ queue "snapshot"
    jobs,               \* the jobs added so far, by job id; commits (snapshot rows
                        \* committed for the job) and undone (a failed attempt
                        \* had issued statements) are history fields
    \* diff worker
    slot,               \* the worker's processor invocations
    \* Hocuspocus server process
    useQueue,           \* USE_SNAPSHOT_QUEUE
    sockets,            \* open connections per (page, user)
    documents,          \* server.documents: the loaded documents' content
    activeConnections,  \* Map pageId -> Set of user ids
    lastSnapshotHash,   \* Map pageId -> hash
    pending,            \* onDisconnect handlers awaiting queueSnapshot or
                        \* saveSnapshotDirect
    lastLog,            \* the last line the hooks wrote to the console
    auth,               \* the last call of onAuthenticate and how it ended
    authenticated,      \* the (documentName, userId) pairs onAuthenticate accepted
    \* Redis persistence extension
    cache,              \* Redis: key -> value with its expiry
    ret,                \* the last call of fetch / store and how it ended
    stored              \* history: per document, the bytes of the last store
                        \* that succeeded and whether the key was evicted since

dbVars == <<block, blockVersion, snapshots>>
queueVars == <<jobs, slot>>
authVars == <<auth, authenticated>>
serverVars == <<useQueue, sockets, documents, activeConnections, lastSnapshotHash, pending,
                lastLog, auth, authenticated>>
cacheVars == <<cache, ret, stored>>
vars == <<block, blockVersion, snapshots, jobs, slot, useQueue, sockets, documents,
          activeConnections, lastSnapshotHash, pending, lastLog, auth, authenticated,
          cache, ret, stored>>

\* a JavaScript Map as a function on its keys
EmptyMap == [k \in {} |-> k]
MapHas(m, k) == k \in DOMAIN m
MapSet(m, k, v) == [x \in DOMAIN m \cup {k} |-> IF x = k THEN v ELSE m[x]]
MapDelete(m, k) == [x \in DOMAIN m \ {k} |-> m[x]]

Slots == {"w1", "w2"}

Idle == [pc |-> "idle", job |-> 0, blocks |-> <<>>, existing |-> {}, i |-> 0, log |-> <<>>]

\* payloads of the jobs a producer hands to queueSnapshot as SnapshotJobData
\* declares them (yjsState: Uint8Array)
BytePayloads == {serializeYDoc(d) : d \in JobDocs} \cup {Malformed}

(***************************************************************************)
(* Postgres statements.  A statement of an open transaction is kept in the *)
(* transaction's log; commit applies the log, rollback drops it.           *)
(***************************************************************************)
DB == [block |-> block, blockVersion |-> blockVersion, snapshots |-> snapshots]

\* tx.block.findMany({ where: { pageId }, select: { id: true } })
findMany(db, pageId) == {r.id : r \in {x \in db.block : x.pageId = pageId}}

\* tx.block.deleteMany({ where: { id: { in: ids } } })
deleteMany(db, ids) == [db EXCEPT !.block = {r \in db.block : r.id \notin ids}]

\* tx.block.upsert({ where: { id }, create: {...pageId...}, update: {...} })
upsert(db, pageId, blk) ==
    IF \E r \in db.block : r.id = blk.id
    THEN [db EXCEPT !.block =
            {IF r.id = blk.id
             THEN [r EXCEPT !.type = blk.type, !.content = blk.content,
                            !.parentId = blk.parentId, !.order = blk.order]
             ELSE r : r \in db.block}]
    ELSE [db EXCEPT !.block = db.block \cup
            {[id |-> blk.id, pageId |-> pageId, type |-> blk.type,
              content |-> blk.content, parentId |-> blk.parentId,
              order |-> blk.order]}]

\* tx.blockVersion.create({ data: { blockId, content, changedBy } })
blockVersionCreate(db, blk, changedBy) ==
    [db EXCEPT !.blockVersion =
        Append(db.blockVersion,
               [blockId |-> blk.id, content |-> blk.content, changedBy |-> changedBy])]

\* one row per page: a write that replaces the page's earlier rows
yjsSnapshotCreate_replace(db, pageId, bytes, createdBy) ==
    [db EXCEPT !.snapshots =
        Append(SelectSeq(db.snapshots, LAMBDA r : r.pageId # pageId),
               [pageId |-> pageId, snapshot |-> bytes, createdBy |-> createdBy])]

\* yjsSnapshot.create({ data: { pageId, snapshot, version, createdBy } })
yjsSnapshotCreate(db, pageId, bytes, createdBy) ==
    [db EXCEPT !.snapshots =
        Append(db.snapshots,
               [pageId |-> pageId, snapshot |-> bytes, createdBy |-> createdBy])]

ApplyOp(db, o) ==
    CASE o.op = "deleteMany" -> deleteMany(db, o.ids)
      [] o.op = "upsert" -> upsert(db, o.pageId, o.blk)
      [] o.op = "version" -> blockVersionCreate(db, o.blk, o.by)
      [] o.op = "snapshot" -> yjsSnapshotCreate(db, o.pageId, o.bytes, o.by)

RECURSIVE ApplyLog(_, _)
ApplyLog(db, log) ==
    IF log = <<>> THEN db ELSE ApplyLog(ApplyOp(db, Head(log)), Tail(log))

\* statements that take effect one by one, outside any transaction
RolledBack_autocommit(db, log) == ApplyLog(db, log)

\* prisma.$transaction: what a commit makes of the database
Committed(db, log) == ApplyLog(db, log)
\* prisma.$transaction: what a rollback leaves of the database
RolledBack(db, log) == db

\* no value: null / undefined
Null == [enc |-> "null"]
\* the empty or missing string
NoName == <<"", "">>
NoAuth == [documentName |-> NoName, url |-> NoName, token |-> "", userId |-> "",
           verify |-> "notcalled", threw |-> FALSE, error |-> "", context |-> Null]
NoCall == [op |-> "none", documentName |-> <<"", "">>, state |-> Null, fault |-> "none",
           threw |-> FALSE, result |-> Null, readLog |-> FALSE, tick |-> 0]

(***************************************************************************)
(* BullMQ: queue.add and the retry policy of defaultJobOptions.            *)
(***************************************************************************)
Init ==
    /\ block = {}
    /\ blockVersion = <<>>
    /\ snapshots = <<>>
    /\ jobs = <<>>
    /\ slot = [s \in Slots |-> Idle]
    /\ useQueue \in BOOLEAN
    /\ sockets = [c \in Pages \X Users |-> 0]
    /\ documents = EmptyMap
    /\ activeConnections = EmptyMap
    /\ lastSnapshotHash = EmptyMap
    /\ pending = <<>>
    /\ lastLog = "started"
    /\ auth = NoAuth
    /\ authenticated = {}
    /\ cache = EmptyMap
    /\ ret = NoCall
    /\ stored = EmptyMap

\* queueSnapshot(data): snapshotQueue.add("process-snapshot", data, ...)
queueSnapshot(pageId, yjsState, triggeredBy) ==
    /\ Len(jobs) < MaxJobs
    /\ jobs' = Append(jobs, [pageId |-> pageId, yjsState |-> yjsState,
                             triggeredBy |-> triggeredBy, state |-> "wait",
                             attemptsMade |-> 0, stalls |-> 0,
                             commits |-> 0, undone |-> FALSE])

Finished(j) == j.state \in {"completed", "failed"}

\* a producer adds a job once the jobs before it have left the queue
Enqueue ==
    /\ \A id \in DOMAIN jobs : Finished(jobs[id])
    /\ \E p \in Pages, y \in BytePayloads, u \in Users : queueSnapshot(p, y, u)
    /\ UNCHANGED <<block, blockVersion, snapshots, slot, serverVars, cacheVars>>

\* one attempt too many
AfterFailure_offByOne(j) ==
    LET made == j.attemptsMade + 1 IN
    [j EXCEPT !.attemptsMade = made,
              !.state = IF made <= Attempts THEN "wait" ELSE "failed"]

\* a failed attempt: retried while attemptsMade < attempts, then parked as failed
AfterFailure(j) ==
    LET made == j.attemptsMade + 1 IN
    [j EXCEPT !.attemptsMade = made,
              !.state = IF made < Attempts THEN "wait" ELSE "failed"]

(***************************************************************************)
(* The diff worker's processor, one action per statement it awaits.        *)
(***************************************************************************)
\* the worker takes a waiting job; deserializeYDoc and yjsToBlocks run
\* before the first await; a throw of deserializeYDoc fails the attempt
StartJob(s) ==
    /\ slot[s].pc = "idle"
    /\ \E id \in DOMAIN jobs :
        /\ jobs[id].state = "wait"
        /\ \E r \in deserializeYDoc(jobs[id].yjsState) :
            IF r.threw
            THEN /\ jobs' = [jobs EXCEPT ![id] = AfterFailure(@)]
                 /\ UNCHANGED slot
            ELSE /\ jobs' = [jobs EXCEPT ![id].state = "active"]
                 /\ slot' = [slot EXCEPT ![s] =
                        [Idle EXCEPT !.pc = "findMany", !.job = id,
                                     !.blocks = yjsToBlocks(r.doc)]]
    /\ UNCHANGED <<dbVars, serverVars, cacheVars>>

blocksToDelete(existing, blocks) == existing \ IdsOf(blocks)

\* where the processor goes after the delete: the upsert loop or the snapshot
AfterDelete(sl) ==
    IF Len(sl.blocks) > 0 THEN [sl EXCEPT !.pc = "upsert", !.i = 1]
    ELSE [sl EXCEPT !.pc = "snapshot"]

\* where the processor goes after block i is done
AfterBlock(sl) ==
    IF sl.i < Len(sl.blocks) THEN [sl EXCEPT !.pc = "upsert", !.i = sl.i + 1]
    ELSE [sl EXCEPT !.pc = "snapshot"]

TxFindMany(s) ==
    /\ slot[s].pc = "findMany"
    /\ LET existing == findMany(ApplyLog(DB, slot[s].log), jobs[slot[s].job].pageId)
           sl == [slot[s] EXCEPT !.existing = existing]
       IN slot' = [slot EXCEPT ![s] =
                IF blocksToDelete(existing, sl.blocks) # {}
                THEN [sl EXCEPT !.pc = "deleteMany"]
                ELSE AfterDelete(sl)]
    /\ UNCHANGED <<block, blockVersion, snapshots, jobs, serverVars, cacheVars>>

TxDeleteMany(s) ==
    /\ slot[s].pc = "deleteMany"
    /\ LET sl == slot[s]
           o == [op |-> "deleteMany", ids |-> blocksToDelete(sl.existing, sl.blocks)]
       IN slot' = [slot EXCEPT ![s] = AfterDelete([sl EXCEPT !.log = Append(sl.log, o)])]
    /\ UNCHANGED <<block, blockVersion, snapshots, jobs, serverVars, cacheVars>>

\* every block taken for a new one
isNew_always(sl, blk) == TRUE

\* no block taken for a new one
isNew_never(sl, blk) == FALSE

isNew(sl, blk) == blk.id \notin sl.existing

TxUpsert(s) ==
    /\ slot[s].pc = "upsert"
    /\ LET sl == slot[s]
           blk == sl.blocks[sl.i]
           o == [op |-> "upsert", pageId |-> jobs[sl.job].pageId, blk |-> blk]
           logged == [sl EXCEPT !.log = Append(sl.log, o)]
       IN slot' = [slot EXCEPT ![s] =
                IF ~isNew(sl, blk) THEN [logged EXCEPT !.pc = "version"]
                ELSE AfterBlock(logged)]
    /\ UNCHANGED <<block, blockVersion, snapshots, jobs, serverVars, cacheVars>>

TxVersion(s) ==
    /\ slot[s].pc = "version"
    /\ LET sl == slot[s]
           o == [op |-> "version", blk |-> sl.blocks[sl.i], by |-> jobs[sl.job].triggeredBy]
       IN slot' = [slot EXCEPT ![s] = AfterBlock([sl EXCEPT !.log = Append(sl.log, o)])]
    /\ UNCHANGED <<block, blockVersion, snapshots, jobs, serverVars, cacheVars>>

TxSnapshot(s) ==
    /\ slot[s].pc = "snapshot"
    /\ LET sl == slot[s]
           j == jobs[sl.job]
           o == [op |-> "snapshot", pageId |-> j.pageId,
                 bytes |-> BufferFrom(j.yjsState), by |-> j.triggeredBy]
       IN slot' = [slot EXCEPT ![s] = [sl EXCEPT !.pc = "commit", !.log = Append(sl.log, o)]]
    /\ UNCHANGED <<block, blockVersion, snapshots, jobs, serverVars, cacheVars>>

TxCommit(s) ==
    /\ slot[s].pc = "commit"
    /\ LET db == Committed(DB, slot[s].log) IN
        /\ block' = db.block
        /\ blockVersion' = db.blockVersion
        /\ snapshots' = db.snapshots
    /\ slot' = [slot EXCEPT ![s] = [@ EXCEPT !.pc = "done"]]
    /\ jobs' = [jobs EXCEPT ![slot[s].job].commits = @ + 1]
    /\ UNCHANGED <<serverVars, cacheVars>>

InTx(sl) == sl.pc \in {"findMany", "deleteMany", "upsert", "version", "snapshot", "commit"}

\* a statement (or the commit) fails: rollback, catch, rethrow
TxThrow(s) ==
    /\ InTx(slot[s])
    /\ LET db == RolledBack(DB, slot[s].log) IN
        /\ block' = db.block
        /\ blockVersion' = db.blockVersion
        /\ snapshots' = db.snapshots
    /\ jobs' = [jobs EXCEPT ![slot[s].job] =
                    [AfterFailure(@) EXCEPT !.undone = @ \/ slot[s].log # <<>>]]
    /\ slot' = [slot EXCEPT ![s] = Idle]
    /\ UNCHANGED <<serverVars, cacheVars>>

\* the processor returned { success: true, ... }: the job is completed
Complete(s) ==
    /\ slot[s].pc = "done"
    /\ jobs' = [jobs EXCEPT ![slot[s].job].state = "completed"]
    /\ slot' = [slot EXCEPT ![s] = Idle]
    /\ UNCHANGED <<dbVars, serverVars, cacheVars>>

\* the worker is lost after the commit and before the job is acknowledged:
\* the job goes back to wait (at-least-once delivery)
Stall(s) ==
    /\ slot[s].pc = "done"
    /\ jobs[slot[s].job].stalls < MaxStalls
    /\ jobs' = [jobs EXCEPT ![slot[s].job] = [@ EXCEPT !.state = "wait", !.stalls = @ + 1]]
    /\ slot' = [slot EXCEPT ![s] = Idle]
    /\ UNCHANGED <<dbVars, serverVars, cacheVars>>

Process(s) ==
    \/ StartJob(s)
    \/ TxFindMany(s)
    \/ TxDeleteMany(s)
    \/ TxUpsert(s)
    \/ TxVersion(s)
    \/ TxSnapshot(s)
    \/ TxCommit(s)
    \/ TxThrow(s)
    \/ Complete(s)
    \/ Stall(s)

\* the diff worker, one job at a time, fed by a deployment that queues
InitWorker == Init /\ useQueue
NextWorker == Enqueue \/ Process("w1")
SpecWorker == InitWorker /\ [][NextWorker]_vars


(***************************************************************************)
(* Properties of the diff worker.                                          *)
(***************************************************************************)
DBnext == [block |-> block', blockVersion |-> blockVersion', snapshots |-> snapshots']
RowIds(rows) == {r.id : r \in rows}
PageRows(rows, pageId) == {r \in rows : r.pageId = pageId}
OtherRows(rows, pageId) == {r \in rows : r.pageId # pageId}
\* the transaction of slot s commits in this step
CommitStep(s) == slot[s].pc = "commit" /\ slot'[s].pc = "done"
\* the BlockVersion rows this step appends
NewVersions == SubSeq(blockVersion', Len(blockVersion) + 1, Len(blockVersion'))
\* versions: exactly one per id of ids, each by the given actor
OnePerId(versions, ids, by) ==
    /\ Len(versions) = Cardinality(ids)
    /\ {v.blockId : v \in Range(versions)} = ids
    /\ \A v \in Range(versions) : v.changedBy = by
UniqueKey(rows) == \A r1, r2 \in rows : r1.id = r2.id => r1 = r2

RECURSIVE SumCommits(_)
SumCommits(js) == IF js = <<>> THEN 0 ELSE Head(js).commits + SumCommits(Tail(js))

\* C1: a committed transaction of process(job) with stored ids S of the job's
\* page and decoded ids D deletes exactly S\D, inserts exactly D\S as new
\* rows, appends one BlockVersion (changedBy = triggeredBy) for each id of
\* S \cap D and none else, appends one snapshot row, and leaves the page
\* with exactly the ids D.
C1_DiffCorrectness ==
    [][\A s \in Slots : CommitStep(s) =>
        LET j == jobs[slot[s].job]
            S == findMany(DB, j.pageId)
            D == IdsOf(slot[s].blocks)
        IN /\ RowIds(block) \ RowIds(block') = S \ D
           /\ RowIds(block') \ RowIds(block) = D \ S
           /\ OnePerId(NewVersions, S \cap D, j.triggeredBy)
           /\ Len(snapshots') = Len(snapshots) + 1
           /\ findMany(DBnext, j.pageId) = D]_vars

\* C2: a transaction of process(job) for page P leaves the Block rows of
\* every other page as they were.
C2_OtherPagesUntouched ==
    [][\A s \in Slots : CommitStep(s) =>
        LET P == jobs[slot[s].job].pageId
        IN OtherRows(block', P) = OtherRows(block, P)]_vars

\* C3: a failing transaction leaves the database as it was and fails the
\* attempt (the error is rethrown); the database changes only in a commit
\* step, which brings the job's snapshot row together with all its Block
\* changes (every decoded id stored, every id marked for deletion gone).
C3_TxAtomicity ==
    [][/\ \A s \in Slots : (InTx(slot[s]) /\ slot'[s].pc = "idle") =>
            /\ dbVars' = dbVars
            /\ jobs'[slot[s].job].attemptsMade = jobs[slot[s].job].attemptsMade + 1
       /\ (dbVars' # dbVars) =>
            \E s \in Slots :
                LET j == jobs[slot[s].job] IN
                /\ CommitStep(s)
                /\ snapshots' = Append(snapshots,
                        [pageId |-> j.pageId, snapshot |-> BufferFrom(j.yjsState),
                         createdBy |-> j.triggeredBy])
                /\ IdsOf(slot[s].blocks) \subseteq RowIds(block')
                /\ blocksToDelete(slot[s].existing, slot[s].blocks) \cap RowIds(block') = {}]_vars

\* a transaction that had issued statements failed, nothing of the job is
\* committed, and the database holds rows it could have damaged
C3_Witness ==
    \E id \in DOMAIN jobs :
        /\ jobs[id].undone
        /\ jobs[id].commits = 0
        /\ PageRows(block, jobs[id].pageId) # {}

\* C4 as stated: processing a job again leaves the page's Block rows as they
\* were, keeps ids unique, and adds nothing but a snapshot row.
C4_OnlySnapshotsDuplicated ==
    [][\A s \in Slots : (CommitStep(s) /\ jobs[slot[s].job].commits >= 1) =>
        LET P == jobs[slot[s].job].pageId
        IN /\ PageRows(block', P) = PageRows(block, P)
           /\ UniqueKey(block')
           /\ Len(snapshots') = Len(snapshots) + 1
           /\ blockVersion' = blockVersion]_vars

\* C4 (amended): processing a job again leaves the page's Block rows as they
\* were and keeps ids unique; it appends one more snapshot row and one more
\* BlockVersion for every decoded id stored for the page.
C4_IdempotentRows ==
    [][\A s \in Slots : (CommitStep(s) /\ jobs[slot[s].job].commits >= 1) =>
        LET j == jobs[slot[s].job]
            P == j.pageId
        IN /\ PageRows(block', P) = PageRows(block, P)
           /\ block' = block
           /\ UniqueKey(block')
           /\ Len(snapshots') = Len(snapshots) + 1
           /\ OnePerId(NewVersions, IdsOf(slot[s].blocks) \cap findMany(DB, P),
                       j.triggeredBy)]_vars

\* a job was processed and committed twice and its page has rows
C4_Witness ==
    \E id \in DOMAIN jobs :
        /\ jobs[id].commits = 2
        /\ PageRows(block, jobs[id].pageId) # {}

\* C6: a job is attempted at most Attempts times; it is parked as failed
\* exactly when Attempts attempts have failed, and is then held by no
\* worker; a job completed without redelivery has exactly one snapshot row
\* committed for it, however many attempts failed before; the snapshot log
\* holds one row per committed attempt and none for a failed one.
C6_RetryPolicy ==
    /\ \A id \in DOMAIN jobs :
        LET j == jobs[id] IN
        /\ j.attemptsMade <= Attempts
        /\ (j.state = "failed") <=> (j.attemptsMade = Attempts)
        /\ (j.state = "failed") => \A s \in Slots : slot[s].job # id
        /\ (j.state = "completed" /\ j.stalls = 0) => j.commits = 1
        /\ (j.state = "failed" /\ j.stalls = 0) => j.commits = 0
        /\ j.commits <= j.stalls + 1
    /\ Len(snapshots) = SumCommits(jobs)

\* a job whose transaction failed twice is completed on its third attempt,
\* with one snapshot row
C6_Witness ==
    \E id \in DOMAIN jobs :
        /\ jobs[id].state = "completed"
        /\ jobs[id].attemptsMade = 2
        /\ jobs[id].undone
        /\ jobs[id].stalls = 0
        /\ jobs[id].commits = 1
        /\ Len(snapshots) = 1


(***************************************************************************)
(* The Hocuspocus server hooks.                                            *)
(***************************************************************************)
\* documentName is "page:" followed by the page id
DocumentName(pageId) == <<"page:", pageId>>
\* documentName.replace("page:", "")
PageIdOf(documentName) == documentName[2]
DocumentNames == {DocumentName(p) : p \in Pages}

\* the contents a loaded document takes in the server
ServerDocs == { <<>>, <<ParaHello>> }

TotalSockets == LET RECURSIVE Sum(_)
                    Sum(S) == IF S = {} THEN 0
                              ELSE LET c == CHOOSE x \in S : TRUE
                                   IN sockets[c] + Sum(S \ {c})
                IN Sum(Pages \X Users)
SocketsOn(pageId) == {u \in Users : sockets[<<pageId, u>>] > 0}

\* onConnect, with the document loaded by the server on its first connection
OnConnect(documentName, userId, loaded) ==
    LET pageId == PageIdOf(documentName)
        conns == IF MapHas(activeConnections, pageId)
                 THEN activeConnections[pageId] ELSE {}
    IN /\ TotalSockets < MaxSockets
       /\ sockets' = [sockets EXCEPT ![<<pageId, userId>>] = @ + 1]
       /\ documents' = IF MapHas(documents, documentName) THEN documents
                       ELSE MapSet(documents, documentName, loaded)
       /\ activeConnections' = MapSet(activeConnections, pageId, conns \cup {userId})
       /\ lastLog' = "onConnect"
       /\ UNCHANGED <<authVars, cacheVars, dbVars, queueVars, useQueue, lastSnapshotHash, pending>>

\* the sync engine applies a client's update to a loaded document
Edit(documentName, content) ==
    /\ MapHas(documents, documentName)
    /\ SocketsOn(PageIdOf(documentName)) # {}
    /\ documents[documentName] # content
    /\ documents' = [documents EXCEPT ![documentName] = content]
    /\ UNCHANGED <<authVars, cacheVars, dbVars, queueVars, useQueue, sockets, activeConnections,
                   lastSnapshotHash, pending, lastLog>>

\* the server drops a document no connection is open on
UnloadDocument(documentName) ==
    /\ MapHas(documents, documentName)
    /\ SocketsOn(PageIdOf(documentName)) = {}
    /\ documents' = MapDelete(documents, documentName)
    /\ UNCHANGED <<authVars, cacheVars, dbVars, queueVars, useQueue, sockets, activeConnections,
                   lastSnapshotHash, pending, lastLog>>

\* a comparison that takes a missing fingerprint for a match
hashDiffers_missingIsSame(stateHash, pageId) ==
    MapHas(lastSnapshotHash, pageId) /\ lastSnapshotHash[pageId] # stateHash

\* a handler that never records the fingerprint
recordHash_forgotten(h) == lastSnapshotHash

\* the comparison of onDisconnect: stateHash !== lastHash
hashDiffers(stateHash, pageId) ==
    ~(MapHas(lastSnapshotHash, pageId) /\ lastSnapshotHash[pageId] = stateHash)

\* onDisconnect up to its await of queueSnapshot / saveSnapshotDirect
OnDisconnect(documentName, userId) ==
    LET pageId == PageIdOf(documentName) IN
    /\ sockets[<<pageId, userId>>] > 0
    /\ sockets' = [sockets EXCEPT ![<<pageId, userId>>] = @ - 1]
    /\ IF ~MapHas(activeConnections, pageId)
       THEN UNCHANGED <<activeConnections, pending, lastLog>>
       ELSE LET connections == activeConnections[pageId] \ {userId} IN
            IF connections # {}
            THEN /\ activeConnections' = MapSet(activeConnections, pageId, connections)
                 /\ lastLog' = "onDisconnect"
                 /\ UNCHANGED pending
            ELSE /\ activeConnections' = MapDelete(activeConnections, pageId)
                 /\ IF ~MapHas(documents, documentName)
                    THEN /\ lastLog' = "onDisconnect"
                         /\ UNCHANGED pending
                    ELSE LET state == serializeYDoc(documents[documentName])
                             stateHash == calculateStateHash(state)
                         IN IF hashDiffers(stateHash, pageId)
                            THEN /\ pending' = Append(pending,
                                        [pageId |-> pageId,
                                         yjsState |-> yjsStateToBase64(state),
                                         triggeredBy |-> userId,
                                         stateHash |-> stateHash])
                                 /\ lastLog' = "onDisconnect"
                            ELSE /\ lastLog' = "skipping"
                                 /\ UNCHANGED pending
    /\ UNCHANGED <<authVars, cacheVars, dbVars, queueVars, useQueue, documents, lastSnapshotHash>>

RemoveAt(seq, i) == SubSeq(seq, 1, i - 1) \o SubSeq(seq, i + 1, Len(seq))

\* saveSnapshotDirect(pageId, yjsState, triggeredBy, timestamp)
saveSnapshotDirect(pageId, yjsState, triggeredBy) ==
    /\ Len(snapshots) < MaxSnapshots
    /\ snapshots' = yjsSnapshotCreate(DB, pageId, BufferFrom(base64ToYjsState(yjsState)),
                                      triggeredBy).snapshots

\* what onDisconnect records once the snapshot is queued or saved
recordHash(h) == MapSet(lastSnapshotHash, h.pageId, h.stateHash)

\* a trigger that queues a job and saves a row as well
PersistDone_both(i) ==
    /\ i \in DOMAIN pending
    /\ LET h == pending[i] IN
        /\ queueSnapshot(h.pageId, h.yjsState, h.triggeredBy)
        /\ saveSnapshotDirect(h.pageId, h.yjsState, h.triggeredBy)
        /\ lastSnapshotHash' = recordHash(h)
    /\ lastLog' = IF useQueue THEN "queued" ELSE "saved"
    /\ pending' = RemoveAt(pending, i)
    /\ UNCHANGED <<authVars, cacheVars, block, blockVersion, slot, useQueue, sockets, documents,
                   activeConnections>>

\* the awaited queueSnapshot / saveSnapshotDirect returns: the rest of onDisconnect
PersistDone(i) ==
    /\ i \in DOMAIN pending
    /\ LET h == pending[i] IN
        /\ IF useQueue
           THEN /\ queueSnapshot(h.pageId, h.yjsState, h.triggeredBy)
                /\ UNCHANGED snapshots
           ELSE /\ saveSnapshotDirect(h.pageId, h.yjsState, h.triggeredBy)
                /\ UNCHANGED jobs
        /\ lastSnapshotHash' = recordHash(h)
    /\ lastLog' = IF useQueue THEN "queued" ELSE "saved"
    /\ pending' = RemoveAt(pending, i)
    /\ UNCHANGED <<authVars, cacheVars, block, blockVersion, slot, useQueue, sockets, documents,
                   activeConnections>>

\* a catch that also forgets the sessions of every document
PersistThrows_dropsTracking(i) ==
    /\ i \in DOMAIN pending
    /\ pending' = RemoveAt(pending, i)
    /\ lastLog' = "failed"
    /\ activeConnections' = EmptyMap
    /\ UNCHANGED <<authVars, cacheVars, dbVars, queueVars, useQueue, sockets, documents,
                   lastSnapshotHash>>

\* a handler that records the fingerprint although the call threw
PersistThrows_recordsHash(i) ==
    /\ i \in DOMAIN pending
    /\ pending' = RemoveAt(pending, i)
    /\ lastLog' = "failed"
    /\ lastSnapshotHash' = recordHash(pending[i])
    /\ UNCHANGED <<authVars, cacheVars, dbVars, queueVars, useQueue, sockets, documents,
                   activeConnections>>

\* the awaited call throws: onDisconnect catches and logs
PersistThrows(i) ==
    /\ i \in DOMAIN pending
    /\ pending' = RemoveAt(pending, i)
    /\ lastLog' = "failed"
    /\ UNCHANGED <<authVars, cacheVars, dbVars, queueVars, useQueue, sockets, documents,
                   activeConnections, lastSnapshotHash>>

\* onDestroy; the payload may carry no documentName
OnDestroy(documentName) ==
    /\ IF documentName = NoName
       THEN UNCHANGED <<activeConnections, lastSnapshotHash, lastLog>>
       ELSE /\ activeConnections' = MapDelete(activeConnections, PageIdOf(documentName))
            /\ lastSnapshotHash' = MapDelete(lastSnapshotHash, PageIdOf(documentName))
            /\ lastLog' = "onDestroy " \o PageIdOf(documentName)
    /\ UNCHANGED <<authVars, cacheVars, dbVars, queueVars, useQueue, sockets, documents, pending>>

\* the server with every handler run to completion before the next event
Quiet == pending = <<>>
NextServer ==
    \/ \E n \in DocumentNames, u \in Users, d \in ServerDocs : Quiet /\ OnConnect(n, u, d)
    \/ \E n \in DocumentNames, d \in ServerDocs : Quiet /\ Edit(n, d)
    \/ \E n \in DocumentNames : Quiet /\ UnloadDocument(n)
    \/ \E n \in DocumentNames, u \in Users : Quiet /\ OnDisconnect(n, u)
    \/ \E n \in DocumentNames \cup {NoName} : Quiet /\ OnDestroy(n)
    \/ \E i \in DOMAIN pending : PersistDone(i)
    \/ \E i \in DOMAIN pending : PersistThrows(i)
SpecServer == Init /\ [][NextServer]_vars


(***************************************************************************)
(* Properties of the hooks.                                                *)
(***************************************************************************)
\* the state of a loaded document as onDisconnect serializes and hashes it
HashOfLoaded(pageId) == calculateStateHash(serializeYDoc(documents[DocumentName(pageId)]))
\* the disconnect of user u ends the last session of page p, whose document is loaded
LastDisconnect(p, u) ==
    /\ sockets'[<<p, u>>] < sockets[<<p, u>>]
    /\ MapHas(activeConnections, p)
    /\ activeConnections[p] \ {u} = {}
    /\ MapHas(documents, DocumentName(p))
LastOf(seq) == seq[Len(seq)]

\* C5: with handlers run to completion, a last-session disconnect whose
\* state hash equals lastSnapshotHash[page] enqueues nothing, saves nothing
\* and leaves the fingerprint; with a different hash (or no fingerprint) it
\* goes on to queue exactly one job (queue mode) or write exactly one
\* snapshot row (direct mode) of that state and then sets the fingerprint
\* to the new hash, unless the queue or the store throws.
C5_ChangeSuppression ==
    [][/\ \A p \in Pages, u \in Users : LastDisconnect(p, u) =>
            /\ jobs' = jobs /\ dbVars' = dbVars /\ lastSnapshotHash' = lastSnapshotHash
            /\ IF MapHas(lastSnapshotHash, p) /\ lastSnapshotHash[p] = HashOfLoaded(p)
               THEN pending' = pending /\ lastLog' = "skipping"
               ELSE /\ Len(pending') = Len(pending) + 1
                    /\ LastOf(pending').pageId = p
                    /\ LastOf(pending').stateHash = HashOfLoaded(p)
                    /\ base64ToYjsState(LastOf(pending').yjsState)
                         = serializeYDoc(documents[DocumentName(p)])
       /\ (Len(pending') < Len(pending) /\ lastLog' # "failed") =>
            LET h == pending[1] IN
            /\ lastSnapshotHash' = MapSet(lastSnapshotHash, h.pageId, h.stateHash)
            /\ IF useQueue
               THEN /\ snapshots' = snapshots
                    /\ Len(jobs') = Len(jobs) + 1
                    /\ LastOf(jobs').pageId = h.pageId
                    /\ calculateStateHash(base64ToYjsState(LastOf(jobs').yjsState)) = h.stateHash
               ELSE /\ jobs' = jobs
                    /\ Len(snapshots') = Len(snapshots) + 1
                    /\ LastOf(snapshots').pageId = h.pageId
                    /\ calculateStateHash(LastOf(snapshots').snapshot) = h.stateHash
       /\ (jobs' # jobs \/ snapshots' # snapshots) => Len(pending') < Len(pending)]_vars

\* a last-session disconnect was suppressed: the page has a fingerprint, it is
\* the hash of the loaded state, and exactly one job or row was produced
C5_Witness ==
    /\ lastLog = "skipping"
    /\ \E p \in Pages :
        /\ MapHas(lastSnapshotHash, p)
        /\ MapHas(documents, DocumentName(p))
        /\ lastSnapshotHash[p] = HashOfLoaded(p)
        /\ Len(jobs) + Len(snapshots) = 1


(***************************************************************************)
(* The Redis persistence extension: fetch and store of the Database        *)
(* extension, over Redis and the YjsSnapshot table.                        *)
(***************************************************************************)
\* `ydoc_v2:${documentName}`
cacheKey(documentName) == <<"ydoc_v2:", documentName>>
\* the key of another version of the extension
storeKey_v1(documentName) == <<"ydoc:", documentName>>
\* the key store writes
storeKey(documentName) == cacheKey(documentName)

RECURSIVE findFirst_oldest(_, _)
\* the first row of the page instead of the last
findFirst_oldest(rows, pageId) ==
    IF rows = <<>> THEN Null
    ELSE IF Head(rows).pageId = pageId THEN Head(rows)
         ELSE findFirst_oldest(Tail(rows), pageId)

RECURSIVE findFirst(_, _)
\* prisma.yjsSnapshot.findFirst({ where: { pageId }, orderBy: { createdAt: "desc" } })
findFirst(rows, pageId) ==
    IF rows = <<>> THEN Null
    ELSE IF rows[Len(rows)].pageId = pageId THEN rows[Len(rows)]
         ELSE findFirst(SubSeq(rows, 1, Len(rows) - 1), pageId)

\* the value of a key with its expiry: redis.set(key, buffer, "EX", 3600)
Entry(bytes) == [bytes |-> bytes, ttl |-> CacheTTL]

Call(op, documentName, state, fault, threw, result, readLog) ==
    [op |-> op, documentName |-> documentName, state |-> state, fault |-> fault,
     threw |-> threw, result |-> result, readLog |-> readLog, tick |-> 1 - ret.tick]

\* fetch({ documentName }); fault names the call that rejects, if any
Fetch(documentName, fault) ==
    LET key == cacheKey(documentName)
        pageId == PageIdOf(documentName)
        snapshot == findFirst(snapshots, pageId)
    IN /\ IF fault = "get"
          THEN /\ ret' = Call("fetch", documentName, Null, fault, TRUE, Null, FALSE)
               /\ UNCHANGED cache
          ELSE IF MapHas(cache, key)
          THEN /\ fault = "none"
               /\ ret' = Call("fetch", documentName, Null, fault, FALSE, cache[key].bytes, FALSE)
               /\ UNCHANGED cache
          ELSE IF fault = "find"
          THEN /\ ret' = Call("fetch", documentName, Null, fault, TRUE, Null, TRUE)
               /\ UNCHANGED cache
          ELSE IF snapshot # Null
          THEN IF fault = "set"
               THEN /\ ret' = Call("fetch", documentName, Null, fault, TRUE, Null, TRUE)
                    /\ UNCHANGED cache
               ELSE /\ cache' = MapSet(cache, key, Entry(BufferFrom(snapshot.snapshot)))
                    /\ ret' = Call("fetch", documentName, Null, fault, FALSE,
                                   BufferFrom(snapshot.snapshot), TRUE)
          ELSE /\ fault = "none"
               /\ ret' = Call("fetch", documentName, Null, fault, FALSE, Null, TRUE)
               /\ UNCHANGED cache
       /\ UNCHANGED <<dbVars, queueVars, serverVars, stored>>

\* store({ documentName, state }); fault names the call that rejects, if any
Store(documentName, state, fault) ==
    /\ fault \in {"none", "set"}
    /\ IF fault = "set"
       THEN /\ ret' = Call("store", documentName, state, fault, TRUE, Null, FALSE)
            /\ UNCHANGED <<cache, stored>>
       ELSE /\ cache' = MapSet(cache, storeKey(documentName), Entry(BufferFrom(state)))
            /\ stored' = MapSet(stored, documentName, [bytes |-> state, evicted |-> FALSE])
            /\ ret' = Call("store", documentName, state, fault, FALSE, Null, FALSE)
    /\ UNCHANGED <<dbVars, queueVars, serverVars>>

\* Redis drops a key whose expiry has passed
Expire(key) ==
    /\ MapHas(cache, key)
    /\ cache' = MapDelete(cache, key)
    /\ stored' = [n \in DOMAIN stored |->
                    IF storeKey(n) = key THEN [stored[n] EXCEPT !.evicted = TRUE]
                    ELSE stored[n]]
    /\ UNCHANGED <<dbVars, queueVars, serverVars, ret>>

\* a persistence cycle of the direct path appends a snapshot row
SaveSnapshot(pageId, state, triggeredBy) ==
    /\ saveSnapshotDirect(pageId, yjsStateToBase64(state), triggeredBy)
    /\ UNCHANGED <<block, blockVersion, queueVars, serverVars, cacheVars>>

StoredStates == {serializeYDoc(d) : d \in ServerDocs}
Faults == {"none", "get", "find", "set"}

InitCache == Init /\ ~useQueue
NextCache ==
    \/ \E n \in DocumentNames, f \in Faults : Fetch(n, f)
    \/ \E n \in DocumentNames, st \in StoredStates, f \in Faults : Store(n, st, f)
    \/ \E k \in DOMAIN cache : Expire(k)
    \/ \E q \in Pages, st \in StoredStates, u \in Users : SaveSnapshot(q, st, u)
SpecCache == InitCache /\ [][NextCache]_vars

(***************************************************************************)
(* Properties of the cache-aside extension.                                *)
(***************************************************************************)
\* this step is a call of fetch / of store
FetchStep == ret' # ret /\ ret'.op = "fetch"
StoreStep == ret' # ret /\ ret'.op = "store"
\* the snapshot rows of a page, by position in the log
RowsOf(pageId) == {i \in DOMAIN snapshots : snapshots[i].pageId = pageId}
\* the bytes of the row of the page inserted last; Null if it has none
MostRecent(pageId) ==
    IF RowsOf(pageId) = {} THEN Null
    ELSE snapshots[CHOOSE i \in RowsOf(pageId) : \A k \in RowsOf(pageId) : k <= i].snapshot
HoldsBytes(c, documentName, bytes) ==
    /\ MapHas(c, cacheKey(documentName))
    /\ c[cacheKey(documentName)] = [bytes |-> bytes, ttl |-> CacheTTL]

\* C7: a fetch that does not fail returns the bytes of the cache entry
\* without reading the log when there is one; else it reads the log and
\* returns the bytes of the page's most recent snapshot row, setting the
\* cache entry to them with a TTL of 3600 s; with no row it returns null and
\* leaves the cache.
C7_CacheAsideRead ==
    [][(FetchStep /\ ~ret'.threw) =>
        LET n == ret'.documentName
            latest == MostRecent(PageIdOf(n))
        IN IF MapHas(cache, cacheKey(n))
           THEN /\ ret'.result = cache[cacheKey(n)].bytes
                /\ ~ret'.readLog
                /\ cache' = cache
           ELSE /\ ret'.readLog
                /\ ret'.result = latest
                /\ IF latest # Null
                   THEN /\ HoldsBytes(cache', n, latest)
                        /\ \A k \in DOMAIN cache : MapHas(cache', k) /\ cache'[k] = cache[k]
                   ELSE cache' = cache]_vars

\* a fetch fell back to the log of a page with two different rows and
\* returned and cached the later one
C7_Witness ==
    /\ ret.op = "fetch" /\ ~ret.threw /\ ret.readLog
    /\ LET q == PageIdOf(ret.documentName) IN
        /\ Cardinality(RowsOf(q)) = 2
        /\ \E i, k \in RowsOf(q) : snapshots[i].snapshot # snapshots[k].snapshot
        /\ ret.result = MostRecent(q)
        /\ HoldsBytes(cache, ret.documentName, ret.result)

\* C8 as stated: a fetch after a successful store(document, s) returns s and
\* leaves the cache holding s, also after the entry was evicted.
C8_RoundTrip ==
    [][(FetchStep /\ ~ret'.threw /\ MapHas(stored, ret'.documentName)) =>
        LET n == ret'.documentName IN
        /\ ret'.result = stored[n].bytes
        /\ HoldsBytes(cache', n, stored[n].bytes)]_vars

\* C8 (amended): store(document, s) sets the entry to s; a fetch after it
\* returns s while the entry has not been evicted; the first fetch after
\* an eviction returns the bytes of the page's most recent snapshot row
\* (null if none) and sets the entry to them, and a fetch that finds an entry
\* returns its bytes.
C8_RoundTripUntilEvicted ==
    [][/\ (StoreStep /\ ~ret'.threw) => HoldsBytes(cache', ret'.documentName, ret'.state)
       /\ (FetchStep /\ ~ret'.threw /\ MapHas(stored, ret'.documentName)) =>
            LET n == ret'.documentName
                latest == MostRecent(PageIdOf(n))
            IN /\ ~stored[n].evicted =>
                    /\ ret'.result = stored[n].bytes
                    /\ HoldsBytes(cache', n, stored[n].bytes)
               /\ (stored[n].evicted /\ ~MapHas(cache, cacheKey(n))) =>
                    /\ ret'.result = latest
                    /\ latest # Null => HoldsBytes(cache', n, latest)
                    /\ latest = Null => cache' = cache
               /\ MapHas(cache, cacheKey(n)) =>
                    /\ ret'.result = cache[cacheKey(n)].bytes
                    /\ cache' = cache]_vars

\* after a store and an eviction a fetch fell back to the log, returned
\* bytes other than the stored ones and put them in the cache
C8_Witness ==
    /\ ret.op = "fetch" /\ ~ret.threw /\ ret.readLog
    /\ MapHas(stored, ret.documentName)
    /\ stored[ret.documentName].evicted
    /\ ret.result # Null
    /\ ret.result # stored[ret.documentName].bytes
    /\ HoldsBytes(cache, ret.documentName, ret.result)

\* C9: a fetch whose cache read fails does not fail: it returns the bytes
\* of the page's most recent snapshot row, or null.
C9_CacheReadErrorIsMiss ==
    [][(FetchStep /\ ret'.fault = "get") =>
        /\ ~ret'.threw
        /\ ret'.result = MostRecent(PageIdOf(ret'.documentName))]_vars

\* C10: a store whose cache write fails does not fail, and a fetch whose
\* repopulating cache write fails returns the bytes read from the log.
C10_CacheWriteErrorsSwallowed ==
    [][((FetchStep \/ StoreStep) /\ ret'.fault = "set") =>
        /\ ~ret'.threw
        /\ ret'.op = "fetch" => ret'.result = MostRecent(PageIdOf(ret'.documentName))]_vars

(***************************************************************************)
(* Properties of the persistence cycle across the tiers.                   *)
(***************************************************************************)
\* C11: every step that commits a snapshot row for a page (the worker's
\* transaction or the direct save) leaves the cache entry of the page's
\* document holding the bytes of that row with a TTL of CacheTTL.
C11_WriteRefreshesCache ==
    [][Len(snapshots') > Len(snapshots) =>
        LET row == LastOf(snapshots')
        IN HoldsBytes(cache', DocumentName(row.pageId), row.snapshot)]_vars

\* C12: the snapshot log is append-only: every step keeps every row of
\* the log at its position with its content, so the log of every page only
\* grows at its end.
C12_AppendOnlyLog ==
    [][/\ Len(snapshots') >= Len(snapshots)
       /\ SubSeq(snapshots', 1, Len(snapshots)) = snapshots]_vars

\* two jobs of one page were committed and both rows are in the log, the
\* earlier one as it was written
C12_Witness ==
    /\ Len(snapshots) = 2
    /\ Len(jobs) = 2
    /\ jobs[1].pageId = jobs[2].pageId
    /\ jobs[1].yjsState # jobs[2].yjsState
    /\ \A id \in DOMAIN jobs :
        /\ jobs[id].state = "completed"
        /\ snapshots[id] = [pageId |-> jobs[id].pageId,
                            snapshot |-> BufferFrom(jobs[id].yjsState),
                            createdBy |-> jobs[id].triggeredBy]

\* C13: when every connection of a page has disconnected and no disconnect
\* handler is still running, the page has no entry in activeConnections
\* and no entry in lastSnapshotHash.
C13_SessionEndCleanup ==
    \A p \in Pages :
        (Quiet /\ SocketsOn(p) = {}) =>
            /\ ~MapHas(activeConnections, p)
            /\ ~MapHas(lastSnapshotHash, p)

\* this step is the return of the awaited queueSnapshot / saveSnapshotDirect
PersistStep == Len(pending') < Len(pending) /\ lastLog' # "failed"
\* this step is the catch of onDisconnect
CatchStep == Len(pending') < Len(pending) /\ lastLog' = "failed"

\* C14: in direct mode a changed-state trigger appends exactly one snapshot
\* row of the document's state before it returns, adds no job and leaves
\* Block and BlockVersion as they are; in queue mode it adds exactly one
\* job and writes no snapshot row; no step does both.
C14_ModeExclusive ==
    [][/\ PersistStep =>
            LET h == pending[1] IN
            IF useQueue
            THEN /\ Len(jobs') = Len(jobs) + 1
                 /\ SubSeq(jobs', 1, Len(jobs)) = jobs
                 /\ dbVars' = dbVars
            ELSE /\ snapshots' = Append(snapshots,
                        [pageId |-> h.pageId,
                         snapshot |-> base64ToYjsState(h.yjsState),
                         createdBy |-> h.triggeredBy])
                 /\ jobs' = jobs
                 /\ block' = block
                 /\ blockVersion' = blockVersion
       /\ ~(jobs' # jobs /\ snapshots' # snapshots)
       /\ ~useQueue => (jobs' = jobs /\ block' = block /\ blockVersion' = blockVersion)
       /\ (useQueue /\ ~PersistStep) => jobs' = jobs
       /\ (~useQueue /\ ~PersistStep) => snapshots' = snapshots]_vars

\* direct mode: a trigger saved one row; no job and no Block row exists
C14_Witness ==
    /\ ~useQueue
    /\ lastLog = "saved"
    /\ Len(snapshots) = 1
    /\ jobs = <<>>
    /\ block = {}
    /\ blockVersion = <<>>

C16_LogReadErrorIsNoData ==
    [][(FetchStep /\ ret'.fault = "find") =>
        /\ ~ret'.threw
        /\ ret'.result = Null
        /\ cache' = cache]_vars

(***************************************************************************)
(* Properties of decoding.                                                 *)
(***************************************************************************)
\* the state of a job cannot be decoded: deserializeYDoc throws on it, or
\* reading one of its items throws during node extraction
Undecodable(yjsState) ==
    \/ \A r \in deserializeYDoc(yjsState) : r.threw
    \/ /\ yjsState.enc = "yjs"
       /\ \E i \in DOMAIN yjsState.doc : yjsState.doc[i].kind = "unreadable"
\* the processor of slot s got past decoding in this step
StartOk(s) == slot[s].pc = "idle" /\ slot'[s].pc = "findMany"

\* C17: a job whose state cannot be decoded is never taken past decoding
\* and never completed: each of its attempts ends as a failed attempt,
\* with Block, BlockVersion and the snapshot log as they were.
C17_DecodeFailureIsolated ==
    [][\A id \in DOMAIN jobs : Undecodable(jobs[id].yjsState) =>
        /\ jobs'[id].state \in {"wait", "failed"}
        /\ (jobs'[id] # jobs[id]) =>
            /\ jobs'[id].attemptsMade = jobs[id].attemptsMade + 1
            /\ dbVars' = dbVars]_vars

\* the elements of a fragment, in document order
Elements(fragment) == SelectSeq(fragment, LAMBDA item : item.kind = "element")
\* the rows of a page that carry the given order
RowsAt(rows, pageId, order) == {r \in PageRows(rows, pageId) : r.order = order}

\* C18: the blocks of one decode carry the orders 0, 1, 2, ... in sequence,
\* one per element in document order (items that are no elements take no
\* order), and after the job's commit the rows of its page, sorted by
\* order, are these blocks: one row per order, with the block's type and
\* content, and no other row.
C18_OrderFidelity ==
    [][\A s \in Slots :
        /\ StartOk(s) =>
            LET b == slot'[s].blocks
                els == Elements(jobs[slot'[s].job].yjsState.doc)
            IN /\ Len(b) <= Len(els)
               /\ ~Undecodable(jobs[slot'[s].job].yjsState) => Len(b) = Len(els)
               /\ \A k \in DOMAIN b : b[k].order = k - 1 /\ b[k].type = els[k].nodeName
        /\ CommitStep(s) =>
            LET b == slot[s].blocks
                P == jobs[slot[s].job].pageId
            IN /\ Cardinality(PageRows(block', P)) = Len(b)
               /\ \A k \in DOMAIN b :
                    \E r \in PageRows(block', P) :
                        /\ RowsAt(block', P, k - 1) = {r}
                        /\ r.type = b[k].type
                        /\ r.content = b[k].content]_vars

\* a node as the decoder emits it
Node(type, order, text, attrs) ==
    [id |-> [digest |-> <<type, order, text>>, chars |-> 16],
     type |-> type, content |-> [text |-> text, attrs |-> attrs],
     parentId |-> "null", order |-> order]
HelloWorld == <<ParaHello, ParaWorld>>

\* C19: every decoded node has the id digest(type, order, text) cut to 16
\* characters and parentId null; the same state decodes to the same list
\* on every attempt; the two paragraphs "Hello" and "World" decode to
\* exactly two paragraph nodes with order 0 and 1, text "Hello" and
\* "World" and ids digest(paragraph,0,Hello) and digest(paragraph,1,World).
C19_DeterministicIdentity ==
    [][\A s \in Slots : StartOk(s) =>
        LET b == slot'[s].blocks
            doc == jobs[slot'[s].job].yjsState.doc
        IN /\ \A k \in DOMAIN b :
                /\ b[k].id = [digest |-> <<b[k].type, b[k].order, b[k].content.text>>,
                              chars |-> 16]
                /\ b[k].parentId = "null"
           /\ doc = HelloWorld =>
                b = <<Node("paragraph", 0, "Hello", "plain"),
                      Node("paragraph", 1, "World", "plain")>>
           /\ doc = <<ParaHelloMarked, ParaHello>> =>
                b = <<Node("paragraph", 0, "Hello", "centered"),
                      Node("paragraph", 1, "Hello", "plain")>>
           /\ doc = <<TopText, ParaWorld>> => b = <<Node("paragraph", 0, "World", "plain")>>
           /\ doc = <<ParaHello>> => b = <<Node("paragraph", 0, "Hello", "plain")>>
           /\ doc = <<>> => b = <<>>]_vars

\* the redelivered job of the two paragraphs is decoded a second time, to
\* the same two nodes
C19_Witness ==
    \E s \in Slots :
        /\ slot[s].pc = "findMany"
        /\ jobs[slot[s].job].yjsState = serializeYDoc(HelloWorld)
        /\ jobs[slot[s].job].stalls = 1
        /\ jobs[slot[s].job].commits = 1
        /\ Len(slot[s].blocks) = 2
        /\ slot[s].blocks[1].id = generateBlockId("paragraph", 0, "Hello")
        /\ slot[s].blocks[2].id = generateBlockId("paragraph", 1, "World")

(***************************************************************************)
(* onAuthenticate and verifyPageAccess.                                    *)
(***************************************************************************)
\* what prisma.page.findUnique finds for (pageId, userId): it rejects, there
\* is no such page, or the page with the workspace members filtered by userId
Lookups == {"throws", "nopage", "nomember", "member"}

\* access for every user of an existing page
verifyPageAccess_pageExists(found) ==
    CASE found = "throws" -> "throws"
      [] found = "nopage" -> "false"
      [] OTHER -> "true"

\* verifyPageAccess(userId, pageId): false without the page, else whether
\* the user is a member of the page's workspace; a rejection propagates
verifyPageAccess(found) ==
    CASE found = "throws" -> "throws"
      [] found = "nopage" -> "false"
      [] found = "nomember" -> "false"
      [] found = "member" -> "true"

\* the documentName of the payload: "page:<id>" or none
PayloadNames == DocumentNames \cup {NoName}
\* the path of request.url without its leading "/": "<id>" or empty
UrlPaths == {<<"", "p1">>, NoName}
Tokens == {"", "jwt"}
UserIds == Users \cup {""}

Rejected(documentName, url, token, userId, verify, error) ==
    [documentName |-> documentName, url |-> url, token |-> token, userId |-> userId,
     verify |-> verify, threw |-> TRUE, error |-> error, context |-> Null]

\* onAuthenticate(data): documentName of the payload or else the path of
\* request.url, token and userId of the request parameters
OnAuthenticate(originalDocumentName, url, token, userId, found) ==
    LET documentName == IF originalDocumentName # NoName THEN originalDocumentName ELSE url
        pageId == PageIdOf(documentName)
    IN /\ IF documentName = NoName
          THEN /\ auth' = Rejected(originalDocumentName, url, token, userId, "notcalled",
                                   "Missing document context")
               /\ UNCHANGED authenticated
          ELSE IF token = ""
          THEN /\ auth' = Rejected(originalDocumentName, url, token, userId, "notcalled",
                                   "Authentication token required")
               /\ UNCHANGED authenticated
          ELSE IF userId = ""
          THEN /\ auth' = Rejected(originalDocumentName, url, token, userId, "notcalled",
                                   "User ID required")
               /\ UNCHANGED authenticated
          ELSE LET hasAccess == verifyPageAccess(found) IN
               IF hasAccess = "throws"
               THEN /\ auth' = Rejected(originalDocumentName, url, token, userId, found,
                                        "verifyPageAccess rejected")
                    /\ UNCHANGED authenticated
               ELSE IF hasAccess = "false"
               THEN /\ auth' = Rejected(originalDocumentName, url, token, userId, found,
                                        "Access denied to this page")
                    /\ UNCHANGED authenticated
               ELSE /\ auth' = [documentName |-> originalDocumentName, url |-> url,
                                token |-> token, userId |-> userId, verify |-> found,
                                threw |-> FALSE, error |-> "",
                                context |-> [documentName |-> documentName,
                                             user |-> userId, pageId |-> pageId]]
                    /\ authenticated' = authenticated \cup {<<documentName, userId>>}
       /\ UNCHANGED <<dbVars, queueVars, cacheVars, useQueue, sockets, documents,
                      activeConnections, lastSnapshotHash, pending, lastLog>>

NextAuth ==
    \E n \in PayloadNames, url \in UrlPaths, tk \in Tokens, u \in UserIds, f \in Lookups :
        OnAuthenticate(n, url, tk, u, f)
SpecAuth == Init /\ [][NextAuth]_vars

\* C20: onAuthenticate returns (accepts) exactly when a document name is
\* present in the payload or the request path, token and userId are
\* present, and the lookup of verifyPageAccess found the user a member;
\* otherwise it throws and accepts nothing; a pair enters the accepted
\* connections only in a call for that pair whose verification found a member.
C20_AuthorizationGate ==
    [][/\ (auth' # auth) =>
            LET name == IF auth'.documentName # NoName THEN auth'.documentName ELSE auth'.url
                ok == /\ name # NoName
                      /\ auth'.token # ""
                      /\ auth'.userId # ""
                      /\ auth'.verify = "member"
            IN /\ auth'.threw <=> ~ok
               /\ ok => authenticated' = authenticated \cup {<<name, auth'.userId>>}
               /\ ~ok => authenticated' = authenticated
       /\ (authenticated' # authenticated) =>
            /\ auth'.verify = "member"
            /\ ~auth'.threw
            /\ authenticated' \ authenticated
                 = {<<auth'.context.documentName, auth'.userId>>}]_vars

\* a user was denied a page that another user has been accepted on
C20_Witness ==
    /\ auth.threw
    /\ auth.verify = "nomember"
    /\ auth.documentName \in DocumentNames
    /\ <<auth.documentName, auth.userId>> \notin authenticated
    /\ \E u \in Users : <<auth.documentName, u>> \in authenticated

(***************************************************************************)
(* Concurrent transactions of the diff worker: the worker runs up to       *)
(* `concurrency` processors at a time, here the two of Slots, on jobs of   *)
(* one page; the store rejects no statement.  A statement of a             *)
(* transaction reads the rows committed so far (read committed) and its    *)
(* own writes.                                                             *)
(***************************************************************************)
ConcurrentPayloads == {serializeYDoc(d) : d \in {<<>>, <<ParaHello>>, <<ParaHello, ParaWorld>>}}

\* triggers of one page add their jobs while earlier jobs are in the queue
Add ==
    /\ \E p \in Pages, y \in ConcurrentPayloads, u \in Users :
        /\ \A id \in DOMAIN jobs : jobs[id].pageId = p
        /\ queueSnapshot(p, y, u)
    /\ UNCHANGED <<block, blockVersion, snapshots, slot, serverVars, cacheVars>>

NextConcurrent ==
    \/ Add
    \/ \E s \in Slots : StartJob(s)
    \/ \E s \in Slots : TxFindMany(s)
    \/ \E s \in Slots : TxDeleteMany(s)
    \/ \E s \in Slots : TxUpsert(s)
    \/ \E s \in Slots : TxVersion(s)
    \/ \E s \in Slots : TxSnapshot(s)
    \/ \E s \in Slots : TxCommit(s)
    \/ \E s \in Slots : Complete(s)
    \/ \E s \in Slots : Stall(s)
SpecConcurrent == InitWorker /\ [][NextConcurrent]_vars

\* C21: when a transaction of process(job) commits after a transaction of
\* another job of the same page has committed, the page's stored Block ids
\* are exactly the ids the committing transaction decoded.
C21_LastCommitterWins ==
    [][\A s \in Slots : CommitStep(s) =>
        LET P == jobs[slot[s].job].pageId IN
        (\E id \in DOMAIN jobs :
            /\ id # slot[s].job
            /\ jobs[id].pageId = P
            /\ jobs[id].commits >= 1)
        => findMany(DBnext, P) = IdsOf(slot[s].blocks)]_vars

\* the ids this step inserts as new rows
Inserted == RowIds(block') \ RowIds(block)
\* the appended versions carry the decoded content of their block and the
\* job's actor
CarryContent(versions, blocks, by) ==
    \A v \in Range(versions) :
        /\ v.changedBy = by
        /\ \E b \in Range(blocks) : b.id = v.blockId /\ b.content = v.content

Clients == {"u1"}

NextInterleaved ==
    \/ \E n \in DocumentNames, u \in Clients, d \in ServerDocs : OnConnect(n, u, d)
    \/ \E n \in DocumentNames, d \in ServerDocs : Edit(n, d)
    \/ \E n \in DocumentNames : UnloadDocument(n)
    \/ \E n \in DocumentNames, u \in Clients : Len(pending) < MaxPending /\ OnDisconnect(n, u)
    \/ \E n \in DocumentNames \cup {NoName} : OnDestroy(n)
    \/ \E i \in DOMAIN pending : PersistDone(i)
    \/ \E i \in DOMAIN pending : PersistThrows(i)
SpecInterleaved == Init /\ [][NextInterleaved]_vars

\* the awaited call of the i-th suspended handler returns in this step and
\* a job or a snapshot row is written
Persisted(i) ==
    /\ pending' = RemoveAt(pending, i)
    /\ lastLog' # "failed"
    /\ (jobs' # jobs \/ snapshots' # snapshots)

\* C22: also with handlers interleaving at their awaits, no persistence
\* cycle writes a job or a snapshot row for a state whose hash is already
\* the page's recorded fingerprint: an unchanged state is persisted at
\* most once.
C22_SuppressionUnderInterleaving ==
    [][\A i \in DOMAIN pending : Persisted(i) =>
        LET h == pending[i] IN
        ~(MapHas(lastSnapshotHash, h.pageId) /\ lastSnapshotHash[h.pageId] = h.stateHash)]_vars

\* the line onDestroy logs for a page
DestroyLine(p) == "onDestroy " \o p
\* this step is onDestroy of page p
DestroyStep(p) == lastLog' = DestroyLine(p) /\ lastLog # DestroyLine(p)
\* no onDisconnect handler of page p is suspended
NoneInFlight(pend, p) == \A i \in DOMAIN pend : pend[i].pageId # p

\* C27: onDestroy of a page removes the page's entries of
\* activeConnections and lastSnapshotHash and leaves the entries of every
\* other page; once it has run and the handlers of the page that were in
\* flight have completed, the page still has no entry in either map.
C27_DestroyCleanup ==
    [][\A p \in Pages :
        /\ DestroyStep(p) =>
            /\ ~MapHas(activeConnections', p)
            /\ ~MapHas(lastSnapshotHash', p)
            /\ \A q \in Pages \ {p} :
                /\ MapHas(activeConnections', q) = MapHas(activeConnections, q)
                /\ MapHas(activeConnections, q) => activeConnections'[q] = activeConnections[q]
                /\ MapHas(lastSnapshotHash', q) = MapHas(lastSnapshotHash, q)
                /\ MapHas(lastSnapshotHash, q) => lastSnapshotHash'[q] = lastSnapshotHash[q]
        /\ (/\ lastLog = DestroyLine(p)
            /\ Len(pending') < Len(pending)
            /\ NoneInFlight(pending', p)) =>
            /\ ~MapHas(activeConnections', p)
            /\ ~MapHas(lastSnapshotHash', p)]_vars

(***************************************************************************)
(* Properties of session tracking and of the fingerprint.                  *)
(***************************************************************************)
\* a connection of user u to page p closes in this step
DisconnectStep(p, u) == sockets'[<<p, u>>] < sockets[<<p, u>>]
\* connections to page p stay open after this step
StillOpen(p) == \E v \in Users : sockets'[<<p, v>>] > 0

\* C25: a disconnect that leaves a connection to the page open (also one
\* of the same user) starts no persistence cycle and keeps the page's entry
\* of activeConnections; the disconnect that closes the last connection
\* removes the entry.
C25_PersistAtLastSessionOnly ==
    [][\A p \in Pages, u \in Users : DisconnectStep(p, u) =>
        IF StillOpen(p)
        THEN /\ pending' = pending
             /\ MapHas(activeConnections, p) => MapHas(activeConnections', p)
        ELSE ~MapHas(activeConnections', p)]_vars

\* C26: lastSnapshotHash is set to the new hash in the step in which the
\* awaited queueSnapshot / saveSnapshotDirect returns, and in no step
\* before; when the call throws the map is left as it is and does not hold
\* the hash of the state that failed, so that the next last-session
\* disconnect with that state starts a persistence cycle again.
C26_FingerprintAfterSuccess ==
    [][/\ PersistStep =>
            lastSnapshotHash' = MapSet(lastSnapshotHash, pending[1].pageId,
                                       pending[1].stateHash)
       /\ CatchStep =>
            /\ lastSnapshotHash' = lastSnapshotHash
            /\ ~(/\ MapHas(lastSnapshotHash', pending[1].pageId)
                 /\ lastSnapshotHash'[pending[1].pageId] = pending[1].stateHash)
       /\ Len(pending') > Len(pending) => lastSnapshotHash' = lastSnapshotHash
       /\ \A p \in Pages, u \in Users :
            (/\ LastDisconnect(p, u)
             /\ ~(MapHas(lastSnapshotHash, p) /\ lastSnapshotHash[p] = HashOfLoaded(p)))
            => /\ Len(pending') = Len(pending) + 1
               /\ LastOf(pending').stateHash = HashOfLoaded(p)]_vars

\* queue mode: the enqueue of a page's state failed; the page has no
\* fingerprint and no job, and its document is still loaded
C26_Witness ==
    /\ useQueue
    /\ lastLog = "failed"
    /\ pending = <<>>
    /\ jobs = <<>>
    /\ \E p \in Pages :
        /\ MapHas(documents, DocumentName(p))
        /\ SocketsOn(p) = {}
        /\ ~MapHas(lastSnapshotHash, p)

(***************************************************************************)
(* The pipeline end to end for one page: the hooks queue or save the       *)
(* state of the page at its last disconnect, and the diff worker           *)
(* processes the queued jobs.  An event is dispatched when no handler is   *)
(* suspended and the worker is idle.  The worker's statements listed are   *)
(* those its processor comes to with the payloads onDisconnect queues.     *)
(***************************************************************************)
WorkerIdle == \A s \in Slots : slot[s].pc = "idle"
Settled == Quiet /\ WorkerIdle
PipelineNames == {DocumentName("p1")}

NextPipeline ==
    \/ \E n \in PipelineNames, u \in Clients, d \in ServerDocs : Settled /\ OnConnect(n, u, d)
    \/ \E n \in PipelineNames, d \in ServerDocs : Settled /\ Edit(n, d)
    \/ \E n \in PipelineNames : Settled /\ UnloadDocument(n)
    \/ \E n \in PipelineNames, u \in Clients : Settled /\ OnDisconnect(n, u)
    \/ \E n \in PipelineNames : Settled /\ OnDestroy(n)
    \/ \E i \in DOMAIN pending : PersistDone(i)
    \/ \E i \in DOMAIN pending : PersistThrows(i)
    \/ StartJob("w1")
    \/ TxFindMany("w1")
    \/ TxSnapshot("w1")
    \/ TxCommit("w1")
    \/ TxThrow("w1")
    \/ Complete("w1")
    \/ Stall("w1")
SpecPipeline == Init /\ [][NextPipeline]_vars

\* the state the trigger serialized, recovered from what it handed on
Captured(yjsStateBase64) == base64ToYjsState(yjsStateBase64)
\* the bytes a cold-cache fetch reads for the page from the given log
ColdRead(rows, pageId) ==
    LET r == findFirst(rows, pageId) IN IF r = Null THEN Null ELSE r.snapshot

\* C24: the payload a trigger hands on decodes to the state it serialized,
\* and every snapshot row written for it, by the direct save or by the
\* worker's transaction for the queued job, holds exactly these bytes, so
\* the page's most recent row is the captured state.
C24_SnapshotBytesRoundTrip ==
    [][/\ Len(pending') > Len(pending) =>
            \E n \in DocumentNames :
                /\ PageIdOf(n) = LastOf(pending').pageId
                /\ Captured(LastOf(pending').yjsState) = serializeYDoc(documents[n])
       /\ \A i \in DOMAIN pending : (Persisted(i) /\ ~useQueue) =>
            /\ LastOf(snapshots').snapshot = Captured(pending[i].yjsState)
            /\ ColdRead(snapshots', pending[i].pageId) = Captured(pending[i].yjsState)
       /\ \A i \in DOMAIN pending : (Persisted(i) /\ useQueue) =>
            Captured(LastOf(jobs').yjsState) = Captured(pending[i].yjsState)
       /\ \A s \in Slots : CommitStep(s) =>
            LET j == jobs[slot[s].job] IN
            /\ LastOf(snapshots').snapshot = Captured(j.yjsState)
            /\ ColdRead(snapshots', j.pageId) = Captured(j.yjsState)]_vars

=============================================================================
